---- MODULE Spec2Model ----
(***************************************************************************)
(* Model of the Slack bot's question flow: the /cortalyst command and the  *)
(* ask_cortex_analyst action (src/app.py), the Cortex Analyst REST client  *)
(* (src/src/handler_tasks/cortalyst.py) and the response dispatcher        *)
(* show_response (src/app.py).                                             *)
(*                                                                         *)
(* Strings that the code inspects character by character (the question)    *)
(* are sequences of one-character strings.  Messages built with f-strings  *)
(* are sequences of their parts.  Calls to collaborators (Slack, the       *)
(* warehouse session, the chart renderer, the HTTP endpoint) are steps     *)
(* whose outcome is chosen nondeterministically.                           *)
(***************************************************************************)
EXTENDS Integers, Sequences, FiniteSets, TLC

(* ------------------------------ bounds --------------------------------- *)
\* longest question text
MaxQLen == 2
\* longest envelope of a response in the question flow
MaxFlowBlocks == 1
\* longest envelope handed to show_response on its own
MaxBlocks == 3
\* longest URL after its scheme and "//"
MaxUrlLen == 4
\* most calls of answer on one client
MaxAnswers == 2
\* threads of the listener pool that handle questions
NTasks == 2
\* last tick of the clock
MaxTime == 4
\* questions asked in one run
MaxQuestions == 3
\* calls of load_rsa_public_key in one run
MaxLoads == 2
\* setup requests in one run
MaxSetups == 2
\* threads of the listener pool that handle setup requests
NSetupTasks == 2

(* --------------------------- input alphabets --------------------------- *)
NL == "\n"
Chars == {"a", " ", NL}
Whitespace == {" ", NL}

SeqsUpTo(S, n) == UNION {[1..k -> S] : k \in 0..n}

Questions == SeqsUpTo(Chars, MaxQLen)

TextBlocks == {[type |-> "text", text |-> "t1"]}
SqlBlocks == {[type |-> "sql", statement |-> s] : s \in {"q1", "q2"}}
OtherBlocks == {[type |-> "suggestions"]}
Blocks == TextBlocks \cup SqlBlocks \cup OtherBlocks
Contents == SeqsUpTo(Blocks, MaxBlocks)
FlowContents == SeqsUpTo(Blocks, MaxFlowBlocks)

\* column lists of the dataframes session.sql(query).to_pandas() can return
Dataframes == {<<>>, <<"SERVICE_TYPE">>, <<"SERVICE_TYPE", "TICKET_COUNT">>, <<"A", "B">>}

Statuses == {200, 404, 503}
RequestIds == {"req-1", "None"}
Bodies == {"overloaded", ""}
Token == "jwt"

\* URLs as sequences of pieces: the scheme, "/", "_", "-" and "h" for a run
\* of other characters
UrlChars == {"h", "_", "/"}
Urls == {<<"https:", "/", "/">> \o r : r \in SeqsUpTo(UrlChars, MaxUrlLen)}
\* an endpoint f"https://{host}/api/v2/cortex/analyst/message" of a host
\* without underscore
PlainEndpoint == <<"https:", "/", "/", "h", "/", "h">>

\* names a setup request can carry
DbNames == {"demo_db", "slack_demo"}
SchemaNames == {"data", "support"}
DbInfos == {[db_name |-> d, schema_name |-> s] : d \in DbNames, s \in SchemaNames}
\* no file .dbinfo
NoDbInfo == [db_name |-> "", schema_name |-> ""]
\* a file .dbinfo that was opened for writing and not written
TruncatedDbInfo == [db_name |-> "truncated", schema_name |-> "truncated"]
\* how the write of .dbinfo can end: written, open raised, the write raised
WriteOutcomes == {"ok", "open", "dump"}
\* DBSetup(session=session): db_name = "demo_db", schema_name = "data"
DefaultDbSetup == [db_name |-> "demo_db", schema_name |-> "data"]
\* where do_setup can fail: nowhere, at the wait notice, in db_setup.do, at the
\* congratulation message, at writing .dbinfo
SetupFailures == {"none", "wait", "do", "congrats", "write"}

NoResp == [status |-> 0, request_id |-> "None", text |-> "", content |-> <<>>]

(* ------------------------- string operations --------------------------- *)
\* str.strip(): drop leading and trailing whitespace
RECURSIVE LStrip(_)
LStrip(s) == IF s # <<>> /\ Head(s) \in Whitespace THEN LStrip(Tail(s)) ELSE s

RECURSIVE RStrip(_)
RStrip(s) ==
    IF s # <<>> /\ s[Len(s)] \in Whitespace THEN RStrip(SubSeq(s, 1, Len(s) - 1)) ELSE s

Strip(s) == RStrip(LStrip(s))

\* index of the first line break of s, 0 when there is none
FirstNL(s) ==
    IF \E i \in 1..Len(s) : s[i] = NL
    THEN CHOOSE i \in 1..Len(s) : s[i] = NL /\ \A j \in 1..(i - 1) : s[j] # NL
    ELSE 0

\* str.splitlines(): the lines of s without their line breaks; a trailing
\* line break does not open a further empty line
RECURSIVE SplitLines(_)
SplitLines(s) ==
    IF s = <<>> THEN <<>>
    ELSE LET k == FirstNL(s) IN
         IF k = 0 THEN <<s>>
         ELSE <<SubSeq(s, 1, k - 1)>> \o SplitLines(SubSeq(s, k + 1, Len(s)))

\* " ".join(lines)
RECURSIVE JoinSpace(_)
JoinSpace(lines) ==
    IF lines = <<>> THEN <<>>
    ELSE IF Len(lines) = 1 THEN lines[1]
    ELSE lines[1] \o <<" ">> \o JoinSpace(Tail(lines))

SanitizeQuestion(q) == JoinSpace(SplitLines(q))

(* --------------------------- sanitize_host_name ------------------------ *)
\* first position of the run of non-slash pieces that holds position i
RECURSIVE RunStart(_, _)
RunStart(u, i) == IF i > 1 /\ u[i - 1] # "/" THEN RunStart(u, i - 1) ELSE i

\* position i lies in a match of (?<=//)[^/]+(?=/|$): in a run of non-slash
\* pieces that starts right after "//"
InMatch(u, i) ==
    /\ u[i] # "/"
    /\ LET p == RunStart(u, i) IN p >= 3 /\ u[p - 1] = "/" /\ u[p - 2] = "/"

\* re.search(pattern, url): the positions of the leftmost match
MatchedHost(u) ==
    LET starts == {i \in 1..Len(u) : InMatch(u, i) /\ RunStart(u, i) = i} IN
    IF starts = {} THEN {}
    ELSE LET first == CHOOSE i \in starts : \A j \in starts : i <= j IN
         {i \in 1..Len(u) : InMatch(u, i) /\ RunStart(u, i) = first}

\* a replace_host that rewrites the first "_" of a match only
SubAllFirstUnderscore(u) ==
    [i \in 1..Len(u) |->
        IF /\ InMatch(u, i)
           /\ u[i] = "_"
           /\ \A j \in RunStart(u, i)..(i - 1) : u[j] # "_"
        THEN "-" ELSE u[i]]

\* re.sub(pattern, replace_host, url): every match has its "_" replaced
SubAll(u) == [i \in 1..Len(u) |-> IF InMatch(u, i) /\ u[i] = "_" THEN "-" ELSE u[i]]

sanitize_host_name(u) ==
    IF \E i \in MatchedHost(u) : u[i] = "_" THEN SubAll(u) ELSE u

(* ------------------------- load_rsa_public_key ------------------------- *)
\* what the bytes of a source are: the PEM of an RSA public key, the PEM of a
\* public key of another kind, or something that is no PEM
PemData == {"rsa_public", "ec_public", "garbage"}

\* the values key can take: a Path (to nothing, to a directory, or to a file
\* with some content), a str or bytes
KeySources ==
    {[kind |-> "Path", file |-> f, data |-> "none"] : f \in {"missing", "directory"}}
    \cup {[kind |-> "Path", file |-> "file", data |-> d] : d \in PemData}
    \cup {[kind |-> k, file |-> "none", data |-> d] : k \in {"str", "bytes"}, d \in PemData}

Raised(e) == [raised |-> e, public_key |-> "none"]
Returned(k) == [raised |-> "", public_key |-> k]

\* key_data: open(key, "rb").read() for a Path, bytes(key) for anything else;
\* bytes of a str without an encoding is a TypeError
KeyData(key) ==
    IF key.kind = "Path"
    THEN IF key.file = "missing" THEN Raised("FileNotFoundError")
         ELSE IF key.file = "directory" THEN Raised("IsADirectoryError")
         ELSE Returned(key.data)
    ELSE IF key.kind = "str" THEN Raised("TypeError")
    ELSE Returned(key.data)

\* the try block: load_pem_public_key, the isinstance check, and the except
\* clause that turns every exception into a ValueError
ParseKey(key_data) ==
    IF key_data = "rsa_public" THEN Returned("rsa_public") ELSE Raised("ValueError")

load_rsa_public_key(key) ==
    LET read == KeyData(key) IN
    IF read.raised # "" THEN read ELSE ParseKey(read.public_key)

(* ----------------------------- JWTGenerator --------------------------- *)
\* lifetime of a token and the margin before its expiry in which it is renewed,
\* in ticks of the clock
Lifetime == 3
RenewalMargin == 1

NoToken == [iat |-> 0 - 1, exp |-> 0 - 1]
\* a generator that holds no token
Unissued == [state |-> "Unissued", token |-> NoToken]
\* no generator: the client has not been built or is gone
NoGenerator == [state |-> "None", token |-> NoToken]

\* a token issued at t
Sign(t) == [iat |-> t, exp |-> t + Lifetime]

\* no token is held, or less than the margin is left of the held one
NeedsRenewal(g, t) == g.state # "Valid" \/ g.token.exp - t < RenewalMargin

\* the generator after generate_token at t; the token it returns is the one
\* it holds then
currentToken(g, t) ==
    IF NeedsRenewal(g, t) THEN [state |-> "Valid", token |-> Sign(t)] ELSE g

(* ------------------------------- DBSetup.do ---------------------------- *)
\* the steps of do, in the order of its statements
Steps ==
    <<"create_db", "create_schema", "create_file_formats", "create_stage", "create_table",
      "pipe_and_load">>

\* the names step n is called with: create_db takes self.db_name only, the
\* others self.db_name and self.schema_name
StepNames(n, holder) ==
    IF n = 1 THEN [db_name |-> holder.db_name, schema_name |-> ""]
    ELSE [db_name |-> holder.db_name, schema_name |-> holder.schema_name]

\* a do that goes on after a step that raised
AfterStepIgnored(ok) == "created"

\* a step that returned is followed by its message; a step that raised leaves
\* the try of do, whose except clause raises to do_setup
AfterStep(ok) == IF ok THEN "created" ELSE "except"

\* after the message of step n: the next step, or "Setup completed." after
\* the last one
AfterCreated(n) == IF n < Len(Steps) THEN "step" ELSE "completed"

\* what one setup thread did: a Slack message, a step of do, the write of
\* .dbinfo
Event(ev, n, ok, names) == [ev |-> ev, n |-> n, ok |-> ok, names |-> names]

(* ------------------------- decisions of the code ----------------------- *)
\* the argument ask_cortex_analyst hands to Cortlayst.answer
AnswerArg(q, sanitized) == q

\* the request body Cortlayst.answer builds
Payload(q, database, schema, stage, file) ==
    [text |-> q, semantic_model_file |-> <<"@", database, ".", schema, ".", stage, "/", file>>]

\* a client that sends the request whether it has a token or not
AfterTokenFallback(ok) == "post"

\* jwt_token = self.get_token(): answer goes on to the request when the token
\* was returned; an exception of generate_token leaves answer
AfterToken(ok) == IF ok THEN "post" ELSE "except"

\* a client that takes every status below 500 for a success
StatusOkBelow500(status) == status < 500

\* resp.status_code == 200
StatusOk(status) == status = 200

\* message of the exception Cortlayst.answer raises on a non-200 status
FailedRequest(request_id, status, text) ==
    <<"Failed request (id: ", request_id, ") with status ", ToString(status), ": ", text>>

\* message of the exception show_response raises from its except clause
ErrorSendingResponse(e) == <<"Error sending response ">> \o e

\* a loop that walks the envelope from its end
IterOrderReversed(n, k) == n + 1 - k

\* for item in content: the envelope position of the k-th item taken
IterOrder(n, k) == k

\* a match whose default case runs the sql handling
MatchCaseDefaultSql(type) == IF type = "text" THEN "pass" ELSE "sql"

\* match item["type"]: the case that is taken
MatchCase(type) == IF type = "sql" THEN "sql" ELSE "pass"

\* a dispatcher that logs a failed call and goes on
AfterCallSwallow(ok, next) == next

\* a call inside the try of show_response: continue when it returned,
\* leave the loop for the except clause when it raised
AfterCall(ok, next) == IF ok THEN next ELSE "except"

\* a chart for every result that has a column
NeedsChartAnyColumn(columns) == Len(columns) > 0

\* if len(df.columns) > 1
NeedsChart(columns) == Len(columns) > 1

\* a case "sql" that runs the statement first and shows it afterwards
SqlNextExecuteFirst(step, columns) ==
    CASE step = "match" -> "execute"
      [] step = "execute" -> "say_sql"
      [] step = "say_sql" -> "say_df"
      [] step = "say_df" -> IF Len(columns) > 1 THEN "chart" ELSE "show"
      [] step = "chart" -> "upload"
      [] OTHER -> "show"

\* the statements of case "sql", in the order the code runs them: the step
\* that follows step ("match" is the head of the case)
SqlNext(step, columns) ==
    CASE step = "match" -> "say_sql"
      [] step = "say_sql" -> "execute"
      [] step = "execute" -> "say_df"
      [] step = "say_df" -> IF NeedsChart(columns) THEN "chart" ELSE "show"
      [] step = "chart" -> "upload"
      [] OTHER -> "show"

\* alt.Chart(df).mark_arc().encode(theta="TICKET_COUNT", color="SERVICE_TYPE")
\* can only be saved when both fields are columns of df
ChartFields(columns) ==
    /\ \E i \in 1..Len(columns) : columns[i] = "TICKET_COUNT"
    /\ \E i \in 1..Len(columns) : columns[i] = "SERVICE_TYPE"

\* the calls a handler makes one after the other, each one only when the one
\* before it raised; k is the number of calls that raise
Attempt(calls, k) ==
    [i \in 1..(IF k + 1 < Len(calls) THEN k + 1 ELSE Len(calls)) |->
        [api |-> calls[i].api, text |-> calls[i].text, ok |-> i > k]]

FormCalls ==
    << [api |-> "respond", text |-> <<"blocks.cortex_question">>],
       [api |-> "respond", text |-> <<"Sorry, there was an error displaying the question form.">>],
       [api |-> "respond", text |-> <<"An unexpected error occurred.">>],
       [api |-> "chat_postEphemeral", text |-> <<"An unexpected error occurred.">>] >>

CommandErrorCalls(e) ==
    << [api |-> "respond", text |-> <<"Error asking Cortex Analyst: ">> \o e],
       [api |-> "respond", text |-> <<"An unexpected error occurred.">>],
       [api |-> "chat_postEphemeral", text |-> <<"An unexpected error occurred.">>] >>

\* a handler that only logs the error
ActionErrorCallsLogOnly(e) == <<>>

ActionErrorCalls(e) ==
    << [api |-> "respond", text |-> <<"Sorry, there was an error askingCortex Analyst .">>] >>

WaitMessage ==
    <<":hourglass_flowing_sand: Wait for a few seconds... while I ask the Cortex Analyst :robot_face:">>

(* ------------------------------- state --------------------------------- *)
VARIABLES
    pc,                 \* position of the handler that is running
    path,               \* "command" (/cortalyst) or "action" (ask_cortex_analyst)
    input,              \* the text the user submitted
    question,           \* parameter question of ask_cortex_analyst
    sanitized_question, \* local of ask_cortex_analyst
    keyPathSet,         \* PRIVATE_KEY_FILE_PATH is set in the environment
    tokenCalls,         \* number of get_token() calls of this request
    jwt_token,          \* local of Cortlayst.answer
    posts,              \* requests.post calls of this request
    resp,               \* the response of the last requests.post
    ans,                \* what Cortlayst.answer returned to ask_cortex_analyst
    content,            \* ans["message"]["content"]
    idx,                \* number of items the loop of show_response has taken
    df,                 \* columns of the dataframe of the current sql item
    effects,            \* calls show_response made to its collaborators
    exc,                \* message of the exception that reached the handler
    slack,              \* respond / chat_postMessage calls of the handlers
    url,                \* the endpoint a Cortlayst client was built with
    analyst_endpoint,   \* self.analyst_endpoint
    answerCalls,        \* calls of answer on that client so far
    requestUrls,        \* the url of every requests.post of that client
    now,                \* the clock
    taskpc,             \* where each listener thread is with its question
    jwt_generator,      \* self.jwt_generator of the client each thread built
    task_token,         \* the token get_token returned to each thread
    task_signed,        \* whether that token was signed in that call
    signings,           \* every signing so far: the thread and the token
    asked,              \* questions started so far
    loads,              \* the calls of load_rsa_public_key and their outcomes
    db_setup,           \* db_name and schema_name of the global db_setup
    dbinfo,             \* content of the file .dbinfo
    setup_posts,        \* chat_postMessage calls of the last do_setup
    setups,             \* setup requests handled so far
    spc,                \* where each setup thread is in do_setup
    sargs,              \* db_name and schema_name each do_setup was called with
    sstep,              \* the step of do each setup thread is at
    slog                \* what each setup thread has done in its do_setup

flowVars == <<pc, path, input, question, sanitized_question, keyPathSet, tokenCalls,
              jwt_token, posts, resp, ans, content, idx, df, effects, exc, slack>>

\* the variables the question flow does not touch
hostVars == <<url, analyst_endpoint, answerCalls, requestUrls>>
tokenVars == <<now, taskpc, jwt_generator, task_token, task_signed, signings, asked>>
keyVars == <<loads>>
setupVars == <<db_setup, dbinfo, setup_posts, setups>>
runVars == <<spc, sargs, sstep, slog>>
nonFlowVars == <<hostVars, tokenVars, keyVars, setupVars, runVars>>
nonHostVars == <<flowVars, tokenVars, keyVars, setupVars, runVars>>
nonTokenVars == <<flowVars, hostVars, keyVars, setupVars, runVars>>
nonKeyVars == <<flowVars, hostVars, tokenVars, setupVars, runVars>>
nonSetupVars == <<hostVars, tokenVars, keyVars, runVars>>
nonRunVars == <<flowVars, hostVars, tokenVars, keyVars, setup_posts>>

SetupTasks == 1..NSetupTasks

Tasks == 1..NTasks

vars == <<flowVars, nonFlowVars>>

NoAns == [message |-> [content |-> <<>>], request_id |-> ""]

NoExc == <<>>

\* no client of the analyst exists
HostInit ==
    /\ url = PlainEndpoint
    /\ analyst_endpoint = PlainEndpoint
    /\ answerCalls = 0
    /\ requestUrls = <<>>

\* no thread handles a question
TokenInit ==
    /\ now = 0
    /\ taskpc = [k \in Tasks |-> "idle"]
    /\ jwt_generator = [k \in Tasks |-> NoGenerator]
    /\ task_token = [k \in Tasks |-> NoToken]
    /\ task_signed = [k \in Tasks |-> FALSE]
    /\ signings = <<>>
    /\ asked = 0

\* no key has been loaded
KeyInit == loads = <<>>

\* the application started without a file .dbinfo and no setup was requested
SetupInit ==
    /\ db_setup = DefaultDbSetup
    /\ dbinfo = NoDbInfo
    /\ setup_posts = <<>>
    /\ setups = 0

\* no thread handles a setup request
RunInit ==
    /\ spc = [k \in SetupTasks |-> "idle"]
    /\ sargs = [k \in SetupTasks |-> NoDbInfo]
    /\ sstep = [k \in SetupTasks |-> 0]
    /\ slog = [k \in SetupTasks |-> <<>>]

\* the state outside the question flow when only a question is followed
NonFlowInit ==
    /\ HostInit
    /\ TokenInit
    /\ KeyInit
    /\ SetupInit
    /\ RunInit

Init ==
    /\ pc = "idle"
    /\ path = "none"
    /\ input = <<>>
    /\ question = <<>>
    /\ sanitized_question = <<>>
    /\ keyPathSet \in BOOLEAN
    /\ tokenCalls = 0
    /\ jwt_token = ""
    /\ posts = <<>>
    /\ resp = NoResp
    /\ ans = NoAns
    /\ content = <<>>
    /\ idx = 0
    /\ df = <<>>
    /\ effects = <<>>
    /\ exc = NoExc
    /\ slack = <<>>
    /\ NonFlowInit

\* no question is being handled
FlowIdle ==
    /\ pc = "idle"
    /\ path = "none"
    /\ input = <<>>
    /\ question = <<>>
    /\ sanitized_question = <<>>
    /\ keyPathSet = TRUE
    /\ tokenCalls = 0
    /\ jwt_token = ""
    /\ posts = <<>>
    /\ resp = NoResp
    /\ ans = NoAns
    /\ content = <<>>
    /\ idx = 0
    /\ df = <<>>
    /\ effects = <<>>
    /\ exc = NoExc
    /\ slack = <<>>

\* a handler is started with the locals of the question flow unset
FreshRequest ==
    /\ pc = "idle"
    /\ UNCHANGED <<sanitized_question, keyPathSet, tokenCalls, jwt_token, posts, resp, ans,
                   content, idx, df, effects, exc>>

(* ------------------------------ handlers ------------------------------- *)
\* @app.command("/cortalyst") up to the call of ask_cortex_analyst
handle_cortalyst(text, k) ==
    /\ FreshRequest
    /\ path' = "command"
    /\ input' = text
    /\ LET command_text == Strip(text) IN
       IF command_text = <<>>
       THEN /\ question' = <<>>
            /\ slack' = Attempt(FormCalls, k)
            /\ pc' = "done"
       ELSE /\ k = 0
            /\ question' = command_text
            /\ slack' = <<>>
            /\ pc' = "ask"
    /\ UNCHANGED nonFlowVars

\* @app.action("ask_cortex_analyst") up to the call of ask_cortex_analyst
action_ask_cortex_analyst(value) ==
    /\ FreshRequest
    /\ path' = "action"
    /\ input' = value
    /\ question' = value
    /\ slack' = <<>>
    /\ pc' = "ask"
    /\ UNCHANGED nonFlowVars

\* the handler's except clause around ask_cortex_analyst
handler_except(k) ==
    /\ pc = "except"
    /\ LET calls == IF path = "command" THEN CommandErrorCalls(exc) ELSE ActionErrorCalls(exc) IN
       /\ k < Len(calls) + 1
       /\ slack' = slack \o Attempt(calls, k)
    /\ pc' = "done"
    /\ UNCHANGED <<path, input, question, sanitized_question, keyPathSet, tokenCalls,
                   jwt_token, posts, resp, ans, content, idx, df, effects, exc>>
    /\ UNCHANGED nonFlowVars

\* the handler returns: its locals, the Cortlayst object it built and the
\* record of what it did are gone
handler_return ==
    /\ pc = "done"
    /\ pc' = "idle"
    /\ path' = "none"
    /\ input' = <<>>
    /\ question' = <<>>
    /\ sanitized_question' = <<>>
    /\ tokenCalls' = 0
    /\ jwt_token' = ""
    /\ posts' = <<>>
    /\ resp' = NoResp
    /\ ans' = NoAns
    /\ content' = <<>>
    /\ idx' = 0
    /\ df' = <<>>
    /\ effects' = <<>>
    /\ exc' = NoExc
    /\ slack' = <<>>
    /\ UNCHANGED keyPathSet
    /\ UNCHANGED nonFlowVars

\* ask_cortex_analyst up to the call of cortalyst.answer
ask_cortex_analyst(waitOk) ==
    /\ pc = "ask"
    /\ sanitized_question' = SanitizeQuestion(question)
    /\ slack' = Append(slack, [api |-> "chat_postMessage", text |-> WaitMessage, ok |-> waitOk])
    /\ IF ~waitOk
       THEN /\ exc' = <<"SlackApiError">>
            /\ pc' = "except"
       ELSE IF ~keyPathSet
       THEN /\ exc' = <<"Require PRIVATE_KEY_FILE_PATH to be set.">>
            /\ pc' = "except"
       ELSE /\ exc' = exc
            /\ pc' = "get_token"
    /\ UNCHANGED <<path, input, question, keyPathSet, tokenCalls, jwt_token, posts, resp, ans,
                   content, idx, df, effects>>
    /\ UNCHANGED nonFlowVars

(* --------------------------- Cortlayst.answer -------------------------- *)
\* jwt_token = self.get_token()
get_token(ok) ==
    /\ pc = "get_token"
    /\ tokenCalls' = tokenCalls + 1
    /\ IF ok
       THEN /\ jwt_token' = Token
            /\ exc' = exc
       ELSE /\ jwt_token' = jwt_token
            /\ exc' = <<"token generation failed">>
    /\ pc' = AfterToken(ok)
    /\ UNCHANGED <<path, input, question, sanitized_question, keyPathSet, posts, resp, ans,
                   content, idx, df, effects, slack>>
    /\ UNCHANGED nonFlowVars

\* a response: its status, its X-Snowflake-Request-Id header ("None" when the
\* header is missing), its body as text and the message content its body
\* parses to
Responses ==
    {[status |-> 200, request_id |-> r, text |-> "", content |-> c] :
        r \in RequestIds, c \in FlowContents}
    \cup {[status |-> s, request_id |-> r, text |-> b, content |-> c] :
        s \in Statuses \ {200}, r \in RequestIds, b \in Bodies, c \in FlowContents}

\* an answer that loses the request id
EnvelopeNoId(r) == [message |-> [content |-> r.content], request_id |-> ""]

\* return {**resp.json(), "request_id": request_id}
Envelope(r) == [message |-> [content |-> r.content], request_id |-> r.request_id]

\* the request of answer and what it does with the response r
answer(r) ==
    /\ pc = "post"
    /\ posts' = Append(posts,
                   [body |-> Payload(AnswerArg(question, sanitized_question),
                                     "slack_demo", "data", "semantic_models",
                                     "support_tickets_semantic_model.yaml"),
                    authorization |-> <<"Bearer ", jwt_token>>])
    /\ resp' = r
    /\ IF StatusOk(r.status)
       THEN /\ ans' = Envelope(r)
            /\ content' = ans'.message.content
            /\ exc' = exc
            /\ pc' = "show"
       ELSE /\ ans' = ans
            /\ content' = content
            /\ exc' = FailedRequest(r.request_id, r.status, r.text)
            /\ pc' = "except"
    /\ UNCHANGED <<path, input, question, sanitized_question, keyPathSet, tokenCalls,
                   jwt_token, idx, df, effects, slack>>
    /\ UNCHANGED nonFlowVars

\* requests.post raises (no connection)
answer_no_response ==
    /\ pc = "post"
    /\ posts' = Append(posts,
                   [body |-> Payload(AnswerArg(question, sanitized_question),
                                     "slack_demo", "data", "semantic_models",
                                     "support_tickets_semantic_model.yaml"),
                    authorization |-> <<"Bearer ", jwt_token>>])
    /\ exc' = <<"ConnectionError">>
    /\ pc' = "except"
    /\ UNCHANGED <<path, input, question, sanitized_question, keyPathSet, tokenCalls,
                   jwt_token, resp, ans, content, idx, df, effects, slack>>
    /\ UNCHANGED nonFlowVars

(* ---------------------------- show_response ---------------------------- *)
\* the item the loop is at
Blk == IterOrder(Len(content), idx)
Item == content[Blk]

\* item["statement"]; "" stands for the value a KeyError leaves unset
HasStatement(item) == "statement" \in DOMAIN item
Statement(item) == IF HasStatement(item) THEN item.statement ELSE ""

Effect(kind, stmt, columns, ok) ==
    [blk |-> Blk, kind |-> kind, stmt |-> stmt, df |-> columns, ok |-> ok]

\* except Exception as e: raise Exception(f"Error sending response {e}")
Raise(cause) ==
    /\ exc' = ErrorSendingResponse(cause)
    /\ pc' = "except"

\* a collaborator call of the current item: it is recorded, and when it
\* raised, the except clause of show_response wraps and re-raises
Call(kind, columns, ok, cause) ==
    /\ effects' = Append(effects, Effect(kind, Statement(Item), columns, ok))
    /\ pc' = AfterCall(ok, SqlNext(kind, columns))
    /\ exc' = IF pc' = "except" THEN ErrorSendingResponse(cause) ELSE exc

\* for item in content / match item["type"]
show_next ==
    /\ pc = "show"
    /\ IF idx = Len(content)
       THEN /\ pc' = "done"
            /\ idx' = idx
       ELSE /\ idx' = idx + 1
            /\ pc' = IF MatchCase(content[IterOrder(Len(content), idx + 1)].type) = "sql"
                     THEN SqlNext("match", <<>>) ELSE "show"
    /\ UNCHANGED <<path, input, question, sanitized_question, keyPathSet, tokenCalls,
                   jwt_token, posts, resp, ans, content, df, effects, exc, slack>>
    /\ UNCHANGED nonFlowVars

\* query = item["statement"]
\* say(blocks=blocks.create_sql_block(query), text="Generated SQL")
say_sql(ok) ==
    /\ pc = "say_sql"
    /\ IF HasStatement(Item)
       THEN Call("say_sql", <<>>, ok, <<"SlackApiError">>)
       ELSE /\ ok
            /\ Raise(<<"KeyError">>)
            /\ effects' = effects
    /\ UNCHANGED <<path, input, question, sanitized_question, keyPathSet, tokenCalls,
                   jwt_token, posts, resp, ans, content, idx, df, slack>>
    /\ UNCHANGED nonFlowVars

\* df = session.sql(query).to_pandas()
execute(ok, columns) ==
    /\ pc = "execute"
    /\ ~ok => columns = <<>>
    /\ Call("execute", columns, ok, <<"SnowparkSQLException">>)
    /\ df' = columns
    /\ UNCHANGED <<path, input, question, sanitized_question, keyPathSet, tokenCalls,
                   jwt_token, posts, resp, ans, content, idx, slack>>
    /\ UNCHANGED nonFlowVars

\* say(blocks=blocks.create_df_block(df), text="Query Result")
say_df(ok) ==
    /\ pc = "say_df"
    /\ Call("say_df", df, ok, <<"SlackApiError">>)
    /\ UNCHANGED <<path, input, question, sanitized_question, keyPathSet, tokenCalls,
                   jwt_token, posts, resp, ans, content, idx, df, slack>>
    /\ UNCHANGED nonFlowVars

\* alt.Chart(df)...encode(...); chart.save(buffer, format="png")
chart(rendered) ==
    /\ pc = "chart"
    /\ Call("chart", df, ChartFields(df) /\ rendered, <<"ValueError">>)
    /\ UNCHANGED <<path, input, question, sanitized_question, keyPathSet, tokenCalls,
                   jwt_token, posts, resp, ans, content, idx, df, slack>>
    /\ UNCHANGED nonFlowVars

\* client.files_upload_v2(channel=channel_id, file=image_bytes, ...)
upload(ok) ==
    /\ pc = "upload"
    /\ Call("upload", df, ok, <<"SlackApiError">>)
    /\ UNCHANGED <<path, input, question, sanitized_question, keyPathSet, tokenCalls,
                   jwt_token, posts, resp, ans, content, idx, df, slack>>
    /\ UNCHANGED nonFlowVars

(* --------------------------- specification ----------------------------- *)
Next ==
    \/ \E text \in Questions, k \in 0..4 : handle_cortalyst(text, k)
    \/ \E value \in Questions : action_ask_cortex_analyst(value)
    \/ \E waitOk \in BOOLEAN : ask_cortex_analyst(waitOk)
    \/ \E ok \in BOOLEAN : get_token(ok)
    \/ \E r \in Responses : answer(r)
    \/ answer_no_response
    \/ show_next
    \/ \E ok \in BOOLEAN : say_sql(ok)
    \/ \E ok \in BOOLEAN, columns \in Dataframes : execute(ok, columns)
    \/ \E ok \in BOOLEAN : say_df(ok)
    \/ \E rendered \in BOOLEAN : chart(rendered)
    \/ \E ok \in BOOLEAN : upload(ok)
    \/ \E k \in 0..3 : handler_except(k)
    \/ handler_return

Spec == Init /\ [][Next]_vars

\* show_response on its own: called with any envelope
InitDispatch ==
    /\ pc = "show"
    /\ path = "none"
    /\ input = <<>>
    /\ question = <<>>
    /\ sanitized_question = <<>>
    /\ keyPathSet = TRUE
    /\ tokenCalls = 0
    /\ jwt_token = ""
    /\ posts = <<>>
    /\ resp = NoResp
    /\ ans = NoAns
    /\ content \in Contents
    /\ idx = 0
    /\ df = <<>>
    /\ effects = <<>>
    /\ exc = NoExc
    /\ slack = <<>>
    /\ NonFlowInit

NextDispatch ==
    \/ show_next
    \/ \E ok \in BOOLEAN : say_sql(ok)
    \/ \E ok \in BOOLEAN, columns \in Dataframes : execute(ok, columns)
    \/ \E ok \in BOOLEAN : say_df(ok)
    \/ \E rendered \in BOOLEAN : chart(rendered)
    \/ \E ok \in BOOLEAN : upload(ok)

SpecDispatch == InitDispatch /\ [][NextDispatch]_vars

\* Cortlayst.answer on its own: called with a token in hand, for any question
\* and any response of the endpoint
AnswerResponses ==
    {[status |-> s, request_id |-> r, text |-> b, content |-> c] :
        s \in Statuses, r \in RequestIds, b \in Bodies, c \in Contents}

InitAnswer ==
    /\ pc = "post"
    /\ path = "action"
    /\ input \in Questions
    /\ question = input
    /\ sanitized_question = SanitizeQuestion(question)
    /\ keyPathSet = TRUE
    /\ tokenCalls = 1
    /\ jwt_token = Token
    /\ posts = <<>>
    /\ resp = NoResp
    /\ ans = NoAns
    /\ content = <<>>
    /\ idx = 0
    /\ df = <<>>
    /\ effects = <<>>
    /\ exc = NoExc
    /\ slack = <<[api |-> "chat_postMessage", text |-> WaitMessage, ok |-> TRUE]>>
    /\ NonFlowInit

NextAnswer ==
    \/ \E r \in AnswerResponses : answer(r)
    \/ answer_no_response

SpecAnswer == InitAnswer /\ [][NextAnswer]_vars

(* ---------------- the request of answer and its reply ----------------- *)
\* requests.post(url=..., json=payload, headers=...) is entered: the request
\* is sent and the call waits for the reply; no timeout argument is passed
post_request ==
    /\ pc = "post"
    /\ posts' = Append(posts,
                   [body |-> Payload(AnswerArg(question, sanitized_question),
                                     "slack_demo", "data", "semantic_models",
                                     "support_tickets_semantic_model.yaml"),
                    authorization |-> <<"Bearer ", jwt_token>>])
    /\ pc' = "waiting"
    /\ UNCHANGED <<path, input, question, sanitized_question, keyPathSet, tokenCalls,
                   jwt_token, resp, ans, content, idx, df, effects, exc, slack>>
    /\ UNCHANGED nonFlowVars

\* the endpoint replies: requests.post returns and answer goes on
endpoint_replies(r) ==
    /\ pc = "waiting"
    /\ resp' = r
    /\ IF StatusOk(r.status)
       THEN /\ ans' = Envelope(r)
            /\ content' = ans'.message.content
            /\ exc' = exc
            /\ pc' = "show"
       ELSE /\ ans' = ans
            /\ content' = content
            /\ exc' = FailedRequest(r.request_id, r.status, r.text)
            /\ pc' = "except"
    /\ UNCHANGED <<path, input, question, sanitized_question, keyPathSet, tokenCalls,
                   jwt_token, posts, idx, df, effects, slack>>
    /\ UNCHANGED nonFlowVars

\* the connection is refused or lost: requests.post raises
connection_fails ==
    /\ pc = "waiting"
    /\ exc' = <<"ConnectionError">>
    /\ pc' = "except"
    /\ UNCHANGED <<path, input, question, sanitized_question, keyPathSet, tokenCalls,
                   jwt_token, posts, resp, ans, content, idx, df, effects, slack>>
    /\ UNCHANGED nonFlowVars

NextRequest ==
    \/ post_request
    \/ \E r \in Responses : endpoint_replies(r)
    \/ connection_fails

\* the steps of the client are taken when they can be; whether and when the
\* endpoint replies is up to the endpoint
SpecRequest == InitAnswer /\ [][NextRequest]_vars /\ WF_vars(post_request)

(* ------------------- the endpoint of one Cortlayst client -------------- *)
\* answer called again on the same client: the token is obtained or not, the
\* stored endpoint is replaced by its sanitized form and the request goes to it
answer_endpoint(tokenOk) ==
    /\ answerCalls < MaxAnswers
    /\ answerCalls' = answerCalls + 1
    /\ IF tokenOk
       THEN /\ analyst_endpoint' = sanitize_host_name(analyst_endpoint)
            /\ requestUrls' = Append(requestUrls, analyst_endpoint')
       ELSE UNCHANGED <<analyst_endpoint, requestUrls>>
    /\ UNCHANGED url
    /\ UNCHANGED nonHostVars

InitHost ==
    /\ FlowIdle
    /\ TokenInit
    /\ KeyInit
    /\ SetupInit
    /\ RunInit
    /\ url \in Urls
    /\ analyst_endpoint = url
    /\ answerCalls = 0
    /\ requestUrls = <<>>

NextHost == \E tokenOk \in BOOLEAN : answer_endpoint(tokenOk)

SpecHost == InitHost /\ [][NextHost]_vars

(* --------------- the tokens of questions handled in threads ------------ *)
\* time passes
tick ==
    /\ now < MaxTime
    /\ now' = now + 1
    /\ UNCHANGED <<taskpc, jwt_generator, task_token, task_signed, signings, asked>>
    /\ UNCHANGED nonTokenVars

\* ask_cortex_analyst in thread k builds its client: cortalyst = Cortlayst(...)
\* makes a JWTGenerator of its own
build_client(k) ==
    /\ taskpc[k] = "idle"
    /\ asked < MaxQuestions
    /\ asked' = asked + 1
    /\ jwt_generator' = [jwt_generator EXCEPT ![k] = Unissued]
    /\ taskpc' = [taskpc EXCEPT ![k] = "built"]
    /\ UNCHANGED <<now, task_token, task_signed, signings>>
    /\ UNCHANGED nonTokenVars

\* answer in thread k: jwt_token = self.get_token(), which is
\* self.jwt_generator.generate_token()
generate_token(k, ok) ==
    /\ taskpc[k] = "built"
    /\ IF ok
       THEN LET g == currentToken(jwt_generator[k], now) IN
            /\ jwt_generator' = [jwt_generator EXCEPT ![k] = g]
            /\ task_token' = [task_token EXCEPT ![k] = g.token]
            /\ task_signed' = [task_signed EXCEPT ![k] = NeedsRenewal(jwt_generator[k], now)]
            /\ signings' = IF NeedsRenewal(jwt_generator[k], now)
                           THEN Append(signings, [task |-> k, token |-> g.token])
                           ELSE signings
            /\ taskpc' = [taskpc EXCEPT ![k] = "asked"]
       ELSE /\ taskpc' = [taskpc EXCEPT ![k] = "failed"]
            /\ UNCHANGED <<jwt_generator, task_token, task_signed, signings>>
    /\ UNCHANGED <<now, asked>>
    /\ UNCHANGED nonTokenVars

\* the handler of thread k returns: the client and its generator are gone
finish(k) ==
    /\ taskpc[k] \in {"asked", "failed"}
    /\ taskpc' = [taskpc EXCEPT ![k] = "idle"]
    /\ jwt_generator' = [jwt_generator EXCEPT ![k] = NoGenerator]
    /\ task_token' = [task_token EXCEPT ![k] = NoToken]
    /\ task_signed' = [task_signed EXCEPT ![k] = FALSE]
    /\ UNCHANGED <<now, signings, asked>>
    /\ UNCHANGED nonTokenVars

InitToken ==
    /\ FlowIdle
    /\ HostInit
    /\ TokenInit
    /\ KeyInit
    /\ SetupInit
    /\ RunInit

NextToken ==
    \/ tick
    \/ \E k \in Tasks : build_client(k)
    \/ \E k \in Tasks, ok \in BOOLEAN : generate_token(k, ok)
    \/ \E k \in Tasks : finish(k)

SpecToken == InitToken /\ [][NextToken]_vars

(* ------------------------- loading public keys ------------------------- *)
\* a call load_rsa_public_key(key)
load_key(key) ==
    /\ Len(loads) < MaxLoads
    /\ loads' = Append(loads, [key |-> key, result |-> load_rsa_public_key(key)])
    /\ UNCHANGED nonKeyVars

InitKey ==
    /\ FlowIdle
    /\ HostInit
    /\ TokenInit
    /\ KeyInit
    /\ SetupInit
    /\ RunInit

NextKey == \E key \in KeySources : load_key(key)

SpecKey == InitKey /\ [][NextKey]_vars

(* ------------------------- setups and questions ------------------------ *)
SetupPost(kind, ok) == [text |-> kind, ok |-> ok]

\* do_setup(client, channel_id, logger, db_name, schema_name), failing at
\* failAt; errOk: the error message could be posted
do_setup(db_name, schema_name, failAt, errOk) ==
    /\ pc = "idle"
    /\ setups < MaxSetups
    /\ failAt = "none" => errOk
    /\ setups' = setups + 1
    /\ db_setup' = IF failAt = "wait" THEN db_setup
                   ELSE [db_name |-> db_name, schema_name |-> schema_name]
    /\ dbinfo' = IF failAt = "none"
                 THEN [db_name |-> db_name, schema_name |-> schema_name]
                 ELSE dbinfo
    /\ setup_posts' =
         <<SetupPost("wait", failAt # "wait")>>
         \o (IF failAt \in {"wait", "do"} THEN <<>>
             ELSE <<SetupPost("congratulations", failAt # "congrats")>>)
         \o (IF failAt = "none" THEN <<>> ELSE <<SetupPost("error setting up database", errOk)>>)
    /\ UNCHANGED flowVars
    /\ UNCHANGED nonSetupVars

\* the replies of the endpoint followed here
SetupResponses ==
    {[status |-> s, request_id |-> "req-1", text |-> "", content |-> <<>>] : s \in {200, 503}}

\* the application starts: db_setup takes the names of .dbinfo when the file
\* exists
InitSetup ==
    /\ FlowIdle
    /\ HostInit
    /\ TokenInit
    /\ KeyInit
    /\ dbinfo \in DbInfos \cup {NoDbInfo}
    /\ db_setup = IF dbinfo = NoDbInfo THEN DefaultDbSetup ELSE dbinfo
    /\ setup_posts = <<>>
    /\ setups = 0
    /\ RunInit

NextSetup ==
    \/ \E d \in DbNames, s \in SchemaNames, failAt \in SetupFailures, errOk \in BOOLEAN :
           do_setup(d, s, failAt, errOk)
    \/ action_ask_cortex_analyst(<<"a">>)
    \/ \E waitOk \in BOOLEAN : ask_cortex_analyst(waitOk)
    \/ \E ok \in BOOLEAN : get_token(ok)
    \/ \E r \in SetupResponses : answer(r)
    \/ show_next
    \/ \E k \in 0..1 : handler_except(k)
    \/ handler_return

SpecSetup == InitSetup /\ [][NextSetup]_vars

(* --------------------- do_setup, statement by statement ---------------- *)
Log(k, e) == slog' = [slog EXCEPT ![k] = Append(@, e)]
Goto(k, to) == spc' = [spc EXCEPT ![k] = to]

\* a handler calls do_setup(client, channel_id, logger, db_name, schema_name)
begin_setup(k, names) ==
    /\ spc[k] = "idle"
    /\ setups < MaxSetups
    /\ setups' = setups + 1
    /\ sargs' = [sargs EXCEPT ![k] = names]
    /\ Goto(k, "wait")
    /\ UNCHANGED <<db_setup, dbinfo, sstep, slog>>
    /\ UNCHANGED nonRunVars

\* client.chat_postMessage(... "Wait for few seconds for the setup to be done")
post_wait(k, ok) ==
    /\ spc[k] = "wait"
    /\ Log(k, Event("wait", 0, ok, NoDbInfo))
    /\ Goto(k, IF ok THEN "set_db" ELSE "except")
    /\ UNCHANGED <<db_setup, dbinfo, setups, sargs, sstep>>
    /\ UNCHANGED nonRunVars

\* db_setup.db_name = db_name
set_db_name(k) ==
    /\ spc[k] = "set_db"
    /\ db_setup' = [db_setup EXCEPT !.db_name = sargs[k].db_name]
    /\ Goto(k, "set_schema")
    /\ UNCHANGED <<dbinfo, setups, sargs, sstep, slog>>
    /\ UNCHANGED nonRunVars

\* db_setup.schema_name = schema_name; db_setup.do(...) is entered
set_schema_name(k) ==
    /\ spc[k] = "set_schema"
    /\ db_setup' = [db_setup EXCEPT !.schema_name = sargs[k].schema_name]
    /\ sstep' = [sstep EXCEPT ![k] = 1]
    /\ Goto(k, "step")
    /\ UNCHANGED <<dbinfo, setups, sargs, slog>>
    /\ UNCHANGED nonRunVars

\* a step of do: self.create_db(self.db_name), self.create_schema(...), ...
run_step(k, ok) ==
    /\ spc[k] = "step"
    /\ Log(k, Event(Steps[sstep[k]], sstep[k], ok, StepNames(sstep[k], db_setup)))
    /\ Goto(k, AfterStep(ok))
    /\ UNCHANGED <<db_setup, dbinfo, setups, sargs, sstep>>
    /\ UNCHANGED nonRunVars

\* the message after a step: client.chat_postMessage(":white_check_mark: Created ...")
post_created(k, ok) ==
    /\ spc[k] = "created"
    /\ Log(k, Event("created", sstep[k], ok, NoDbInfo))
    /\ Goto(k, IF ok THEN AfterCreated(sstep[k]) ELSE "except")
    /\ sstep' = [sstep EXCEPT ![k] = IF ok /\ AfterCreated(@) = "step" THEN @ + 1 ELSE @]
    /\ UNCHANGED <<db_setup, dbinfo, setups, sargs>>
    /\ UNCHANGED nonRunVars

\* client.chat_postMessage(text="Setup completed."); do returns
post_completed(k, ok) ==
    /\ spc[k] = "completed"
    /\ Log(k, Event("completed", 0, ok, NoDbInfo))
    /\ Goto(k, IF ok THEN "congrats" ELSE "except")
    /\ UNCHANGED <<db_setup, dbinfo, setups, sargs, sstep>>
    /\ UNCHANGED nonRunVars

\* client.chat_postMessage("*Congratulations!!* Demo setup successful ...")
post_congrats(k, ok) ==
    /\ spc[k] = "congrats"
    /\ Log(k, Event("congratulations", 0, ok, sargs[k]))
    /\ Goto(k, IF ok THEN "write" ELSE "except")
    /\ UNCHANGED <<db_setup, dbinfo, setups, sargs, sstep>>
    /\ UNCHANGED nonRunVars

\* json.dump({"db_name": db_name, "schema_name": schema_name}, file): the
\* parameters of do_setup
WrittenNames(args, holder) == args

\* with open(".dbinfo", "w") as file: json.dump(...)
write_dbinfo(k, outcome) ==
    /\ spc[k] = "write"
    /\ dbinfo' = CASE outcome = "ok" -> WrittenNames(sargs[k], db_setup)
                   [] outcome = "open" -> dbinfo
                   [] outcome = "dump" -> TruncatedDbInfo
    /\ Log(k, Event("write", 0, outcome = "ok", WrittenNames(sargs[k], db_setup)))
    /\ Goto(k, IF outcome = "ok" THEN "done" ELSE "except")
    /\ UNCHANGED <<db_setup, setups, sargs, sstep>>
    /\ UNCHANGED nonRunVars

\* an except clause that persists the names all the same
DbInfoOnErrorWritten(args, old) == args

\* the except clause of do_setup does not touch .dbinfo
DbInfoOnError(args, old) == old

\* except Exception as e: ... client.chat_postMessage("Sorry, error setting up
\* database.{e}"); ok: the templates were removed and the message was posted
setup_except(k, ok) ==
    /\ spc[k] = "except"
    /\ Log(k, Event("error setting up database", 0, ok, NoDbInfo))
    /\ dbinfo' = DbInfoOnError(sargs[k], dbinfo)
    /\ Goto(k, "done")
    /\ UNCHANGED <<db_setup, setups, sargs, sstep>>
    /\ UNCHANGED nonRunVars

\* do_setup returns or its exception leaves it
setup_return(k) ==
    /\ spc[k] = "done"
    /\ Goto(k, "idle")
    /\ sargs' = [sargs EXCEPT ![k] = NoDbInfo]
    /\ sstep' = [sstep EXCEPT ![k] = 0]
    /\ slog' = [slog EXCEPT ![k] = <<>>]
    /\ UNCHANGED <<db_setup, dbinfo, setups>>
    /\ UNCHANGED nonRunVars

\* the steps of setup thread k, for requests with names of Names, Slack
\* calls that end as Oks say and writes that end as Outcomes say
SetupStep(k, Names, Oks, Outcomes) ==
    \/ \E names \in Names : begin_setup(k, names)
    \/ \E ok \in Oks : post_wait(k, ok)
    \/ set_db_name(k)
    \/ set_schema_name(k)
    \/ \E ok \in BOOLEAN : run_step(k, ok)
    \/ \E ok \in Oks : post_created(k, ok)
    \/ \E ok \in Oks : post_completed(k, ok)
    \/ \E ok \in Oks : post_congrats(k, ok)
    \/ \E outcome \in Outcomes : write_dbinfo(k, outcome)
    \/ \E ok \in Oks : setup_except(k, ok)
    \/ setup_return(k)

\* the application starts: db_setup takes the names of .dbinfo when the file
\* exists; no handler runs
InitSetupSteps ==
    /\ FlowIdle
    /\ HostInit
    /\ TokenInit
    /\ KeyInit
    /\ RunInit
    /\ dbinfo \in DbInfos \cup {NoDbInfo}
    /\ db_setup = IF dbinfo = NoDbInfo THEN DefaultDbSetup ELSE dbinfo
    /\ setup_posts = <<>>
    /\ setups = 0

\* setup requests handled one after the other
NextSetupSteps == SetupStep(1, DbInfos, BOOLEAN, WriteOutcomes)

SpecSetupSteps == InitSetupSteps /\ [][NextSetupSteps]_vars

\* the names of the request thread k handles when every thread has a request
\* of its own: no two threads share a database or a schema
ThreadNames(k) ==
    IF k = 1 THEN {[db_name |-> "demo_db", schema_name |-> "data"]}
    ELSE {[db_name |-> "slack_demo", schema_name |-> "support"]}

InitSetupThreads ==
    /\ FlowIdle
    /\ NonFlowInit

\* setup requests handled at the same time by the threads of the listener
\* pool, with Slack and the file system working
NextSetupThreads == \E k \in SetupTasks : SetupStep(k, ThreadNames(k), {TRUE}, {"ok"})

SpecSetupThreads == InitSetupThreads /\ [][NextSetupThreads]_vars

(* ------------------------------ properties ----------------------------- *)
IsBlank(s) == \A i \in 1..Len(s) : s[i] \in Whitespace
HasLineBreak(s) == \E i \in 1..Len(s) : s[i] = NL

\* positions in effects of the calls of kind made for block b
Calls(b, kind) == {k \in 1..Len(effects) : effects[k].blk = b /\ effects[k].kind = kind}

\* the loop of show_response is through with block b
Finished(b) == b < idx \/ (b = idx /\ pc \in {"show", "except", "done"})

\* C1: every request sent to the analyst endpoint carries the question with
\* its line breaks collapsed into spaces, never the line break itself.
C1_QuestionSentCollapsed ==
    \A i \in 1..Len(posts) :
        /\ posts[i].body.text = SanitizeQuestion(question)
        /\ ~HasLineBreak(posts[i].body.text)

\* C2: for an empty or whitespace-only question, on either entry path, no
\* token is generated and no POST is issued.
C2_BlankQuestionNoNetwork ==
    (path # "none" /\ IsBlank(input)) => (tokenCalls = 0 /\ posts = <<>>)

\* C3: the calls show_response makes are in envelope order: a call for a
\* block is never followed by a call for an earlier block, and no call is
\* made for a block the loop has not reached.
C3_BlockOrderPreserved ==
    /\ \A j \in 1..Len(effects) : \A k \in j..Len(effects) :
          effects[j].blk <= effects[k].blk
    /\ \A k \in 1..Len(effects) : effects[k].blk \in 1..idx

C3_Witness ==
    \E j \in 1..Len(effects) : \E k \in 1..Len(effects) :
        j < k /\ effects[j].blk < effects[k].blk

\* C4: when dispatch of an envelope has completed without error, the text
\* of every text block has been passed to the output collaborator, unchanged
\* and once.
C4_TextBlocksForwarded ==
    (pc = "done" /\ idx = Len(content) /\ exc = NoExc) =>
        \A b \in 1..Len(content) :
            content[b].type = "text" =>
                Cardinality({k \in Calls(b, "say_text") :
                                effects[k].stmt = content[b].text}) = 1

\* C5: a statement is executed only after that same statement of that block
\* has been shown successfully, whether the execution then succeeds or fails.
C5_StatementShownBeforeExecution ==
    \A k \in 1..Len(effects) :
        effects[k].kind = "execute" =>
            \E j \in 1..(k - 1) :
                /\ effects[j].kind = "say_sql"
                /\ effects[j].blk = effects[k].blk
                /\ effects[j].stmt = effects[k].stmt
                /\ effects[j].stmt = content[effects[k].blk].statement
                /\ effects[j].ok

C5_Witness ==
    \E k \in 1..Len(effects) :
        /\ effects[k].kind = "execute" /\ ~effects[k].ok
        /\ \E j \in 1..(k - 1) : effects[j].kind = "say_sql" /\ effects[j].blk = effects[k].blk

\* the calls made for block b are in the order of the kinds in order
InOrder(b, order) ==
    \A m \in 1..Len(order) : \A n \in (m + 1)..Len(order) :
        \A j \in Calls(b, order[m]) : \A k \in Calls(b, order[n]) : j < k

\* the successful execution of block b, if there is one
Executed(b) == {k \in Calls(b, "execute") : effects[k].ok}

\* C6 as stated: for a block whose statement executed, the result is
\* rendered once after the execution and, the rendering done, a chart upload
\* is attempted once when the result has more than one column, never
\* otherwise, in the order statement, execution, result, upload.
C6_UploadOncePerWideResult ==
    \A b \in 1..Len(content) :
        /\ InOrder(b, <<"say_sql", "execute", "say_df", "upload">>)
        /\ Finished(b) =>
              \A e \in Executed(b) :
                  /\ Cardinality(Calls(b, "say_df")) = 1
                  /\ \A r \in Calls(b, "say_df") :
                        effects[r].ok =>
                            Cardinality(Calls(b, "upload")) =
                                IF Len(effects[e].df) > 1 THEN 1 ELSE 0

\* C6 amended: for a block whose statement executed, the result is rendered
\* once after the execution; the chart is built once when the rendering
\* returned and the result has more than one column, never otherwise; the
\* upload is attempted once when the chart was built, never otherwise; the
\* order is statement, execution, result, chart, upload.
C6_UploadOnceWhenChartBuilt ==
    \A b \in 1..Len(content) :
        /\ InOrder(b, <<"say_sql", "execute", "say_df", "chart", "upload">>)
        /\ Finished(b) =>
              \A e \in Executed(b) :
                  /\ Cardinality(Calls(b, "say_df")) = 1
                  /\ \A r \in Calls(b, "say_df") :
                        /\ effects[r].df = effects[e].df
                        /\ Cardinality(Calls(b, "chart")) =
                              IF effects[r].ok /\ Len(effects[e].df) > 1 THEN 1 ELSE 0
                  /\ Cardinality(Calls(b, "upload")) =
                        Cardinality({c \in Calls(b, "chart") : effects[c].ok})

C6_Witness ==
    \E b \in 1..Len(content) :
        /\ Finished(b)
        /\ Executed(b) # {}
        /\ Cardinality(Calls(b, "upload")) = 1
        /\ \E c \in 1..Len(content) :
              /\ c # b /\ Finished(c) /\ Calls(c, "upload") = {}
              /\ \E e \in Executed(c) : Len(effects[e].df) = 1

\* C7: a chart construction failure does not abort the dispatch: when the
\* handler is through, every block after the one whose chart failed has been
\* taken by the loop.
C7_ChartFailureContinues ==
    pc \in {"done", "except"} =>
        \A k \in 1..Len(effects) :
            (effects[k].kind = "chart" /\ ~effects[k].ok) =>
                \A c \in (effects[k].blk + 1)..Len(content) : c <= idx

\* C8: a failed call of show_response is its last call, and its failure
\* reaches the caller wrapped as "Error sending response <cause>".
C8_BlockFailureAbortsDispatch ==
    \A k \in 1..Len(effects) :
        ~effects[k].ok =>
            /\ k = Len(effects)
            /\ idx = effects[k].blk
            /\ pc \in {"except", "done"}
            /\ Len(exc) > 1
            /\ Head(exc) = "Error sending response "

C8_Witness ==
    /\ pc = "except"
    /\ \E k \in 1..Len(effects) :
          /\ ~effects[k].ok
          /\ effects[k].blk < Len(content)
          /\ content[effects[k].blk + 1].type = "sql"

\* C9: taking a block whose type is neither text nor sql changes nothing but
\* the position of the loop: no call, no error, and the loop goes on.
C9_UnknownBlockIsNoOp ==
    [][(/\ pc = "show"
        /\ idx < Len(content)
        /\ content[idx + 1].type \notin {"text", "sql"})
       => (/\ pc' = "show"
           /\ idx' = idx + 1
           /\ UNCHANGED <<effects, exc, slack, posts, content, df>>)]_vars

C9_Witness ==
    \E b \in 1..Len(content) :
        /\ content[b].type \notin {"text", "sql"}
        /\ b < idx
        /\ exc = NoExc
        /\ \E k \in 1..Len(effects) : effects[k].blk > b

\* the message e carries the request id, the status and the body of r
Carries(e, r) ==
    \E i \in 1..Len(e) : \E j \in (i + 1)..Len(e) : \E k \in (j + 1)..Len(e) :
        /\ e[i] = r.request_id
        /\ e[j] = ToString(r.status)
        /\ e[k] = r.text

\* C10: whatever status other than 200 the endpoint replies with, answer
\* fails with an error that carries the status, the request id and the
\* body, after exactly one POST, and nothing of the response is dispatched.
C10_NonOkStatusFailsOnce ==
    (resp # NoResp /\ resp.status # 200) =>
        /\ pc \in {"except", "done"}
        /\ Len(posts) = 1
        /\ Carries(exc, resp)
        /\ content = <<>> /\ effects = <<>>

C10_Witness ==
    /\ pc = "except"
    /\ resp.status = 503
    /\ resp.text = "overloaded"
    /\ resp.request_id = "req-1"

\* the calls made through the Slack client and say: the output collaborator
OutputApis == {"chat_postMessage", "chat_postEphemeral", "files_upload_v2", "say"}

\* C11 as stated: when the endpoint replied with a status other than 200, no
\* query was executed and nothing at all was displayed or uploaded through
\* the output collaborator while that question was handled.
C11_NothingDisplayed ==
    (resp # NoResp /\ resp.status # 200) =>
        /\ effects = <<>>
        /\ \A i \in 1..Len(slack) : slack[i].api \notin OutputApis

\* C11 amended: when the endpoint replied with a status other than 200, no
\* query was executed and show_response made no call; the only message
\* posted to the channel is the wait notice sent before the request, and
\* everything after it is the handler's error reply.
C11_NothingDispatched ==
    (resp # NoResp /\ resp.status # 200) =>
        /\ effects = <<>>
        /\ content = <<>>
        /\ ans = NoAns
        /\ slack # <<>>
        /\ slack[1] = [api |-> "chat_postMessage", text |-> WaitMessage, ok |-> TRUE]
        /\ \A i \in 2..Len(slack) :
              /\ slack[i].api \in {"respond", "chat_postEphemeral"}
              /\ slack[i].text # <<"blocks.cortex_question">>

C11_Witness ==
    /\ pc = "done"
    /\ resp.status = 503
    /\ resp.text = "overloaded"
    /\ \E b \in 1..Len(resp.content) : resp.content[b].type = "sql"
    /\ Len(slack) > 1

\* C12: on status 200 answer returns the parsed body with the request id of
\* the response attached, whether the header was there or not; the content
\* handed to show_response is the content of the body, in the same order,
\* and no failure comes from answer.
C12_EnvelopeReturned ==
    (resp # NoResp /\ resp.status = 200) =>
        /\ ans.request_id = resp.request_id
        /\ ans.message.content = resp.content
        /\ content = resp.content
        /\ idx = 0 => (pc = "show" /\ exc = NoExc)

C12_Witness ==
    /\ resp.status = 200
    /\ resp.request_id = "None"
    /\ pc = "show"
    /\ Len(content) > 1
    /\ content[1] # content[2]

\* the host segment: the positions after the first "//" up to the next "/"
\* or the end
HostSegment(u) ==
    LET slashes == {j \in 1..(Len(u) - 1) : u[j] = "/" /\ u[j + 1] = "/"} IN
    IF slashes = {} THEN {}
    ELSE LET j == CHOOSE k \in slashes : \A l \in slashes : k <= l IN
         {i \in (j + 2)..Len(u) : \A k \in (j + 2)..i : u[k] # "/"}

HostOnlyRewritten(u) ==
    [i \in 1..Len(u) |-> IF i \in HostSegment(u) /\ u[i] = "_" THEN "-" ELSE u[i]]

\* C13: the URL a client's first request goes to is its endpoint with every
\* underscore of the host segment rewritten to a hyphen and nothing else
\* changed
C13_OnlyHostSegmentRewritten ==
    requestUrls # <<>> => requestUrls[1] = HostOnlyRewritten(url)

\* C14: a call of answer that has sent its request eventually returns or
\* fails, whatever the endpoint does
C14_RequestEventuallyReturns == (pc = "waiting") ~> (pc \in {"show", "except"})

\* C15: a request is sent only after get_token returned a token in the same
\* call and carries that token; when get_token fails the call fails and no
\* request is sent
C15_TokenBeforeRequest ==
    /\ \A i \in 1..Len(posts) :
        /\ tokenCalls = 1
        /\ jwt_token = Token
        /\ posts[i].authorization = <<"Bearer ", Token>>
    /\ (tokenCalls > 0 /\ jwt_token # Token) =>
        /\ posts = <<>>
        /\ resp = NoResp
        /\ pc \in {"except", "done"}
        /\ exc = <<"token generation failed">>

C15_Witness ==
    /\ pc = "done"
    /\ tokenCalls = 1
    /\ jwt_token # Token
    /\ exc = <<"token generation failed">>
    /\ posts = <<>>

\* token a is valid at t with at least the renewal margin left
ValidOutsideMargin(a, t) == a.iat <= t /\ a.exp - t >= RenewalMargin

\* C16: a thread that obtained a token for one question gets the identical
\* token, with no new signing, for its next questions while that token is valid
\* and outside the renewal margin; a token signed after that has a strictly
\* later issued-at
C16_HeldTokenReused ==
    \A i, j \in 1..Len(signings) :
        (i < j /\ signings[i].task = signings[j].task) =>
            /\ ~ValidOutsideMargin(signings[i].token, signings[j].token.iat)
            /\ signings[j].token.iat > signings[i].token.iat

\* C17: of the questions handled at the same time, at most one has its token
\* signed while one signing would serve them all, and each holds a token that
\* is valid when it is returned
C17_OneSigningForConcurrentCalls ==
    \A k1, k2 \in Tasks :
        (k1 # k2 /\ taskpc[k1] = "asked" /\ taskpc[k2] = "asked"
            /\ task_signed[k1] /\ task_signed[k2]
            /\ task_token[k1].iat <= task_token[k2].iat) =>
            ~ValidOutsideMargin(task_token[k1], task_token[k2].iat)

\* the failures of the question flow: get_token, the request, a call of
\* show_response
TokenFailed == tokenCalls > 0 /\ jwt_token # Token
RequestFailed == posts # <<>> /\ (resp = NoResp \/ resp.status # 200)
DispatchFailed == \E e \in 1..Len(effects) : ~effects[e].ok
Failed == TokenFailed \/ RequestFailed \/ DispatchFailed

\* the error replies of the handler on the path taken
ErrorCalls == IF path = "command" THEN CommandErrorCalls(exc) ELSE ActionErrorCalls(exc)
ErrorTexts == {ErrorCalls[c].text : c \in 1..Len(ErrorCalls)}

\* C18 as stated: when the flow failed, the handler ends with the user having
\* received an error response for the question.
C18_UserReceivesErrorResponse ==
    (pc = "done" /\ Failed) =>
        \E i \in 2..Len(slack) : slack[i].ok /\ slack[i].text \in ErrorTexts

\* C18 (amended): a failure of the flow reaches the handler, which ends the
\* flow and answers with error responses only; the last one was delivered
\* unless every call the handler has for it failed.
C18_FailureAnswered ==
    /\ Failed => (exc # NoExc /\ pc \in {"except", "done"})
    /\ (pc = "done" /\ Failed) =>
        /\ Len(slack) >= 2
        /\ \A i \in 2..Len(slack) :
            /\ slack[i].api \in {"respond", "chat_postEphemeral"}
            /\ slack[i].text \in ErrorTexts
        /\ slack[Len(slack)].ok \/ Len(slack) - 1 = Len(ErrorCalls)

C18_Witness ==
    /\ pc = "done"
    /\ path = "action"
    /\ DispatchFailed
    /\ Len(slack) = 2
    /\ slack[2].ok

\* C19: for every source, a path to nothing fails with FileNotFoundError, a
\* source whose content is not the PEM of an RSA public key fails with
\* ValueError, a failed load returns no key, and no other error escapes
C19_TwoFailureKinds ==
    \A i \in 1..Len(loads) :
        LET key == loads[i].key
            result == loads[i].result IN
        /\ result.raised \in {"", "FileNotFoundError", "ValueError"}
        /\ (key.kind = "Path" /\ key.file = "missing") => result.raised = "FileNotFoundError"
        /\ (key.data \in PemData \ {"rsa_public"}) => result.raised = "ValueError"
        /\ (result.raised # "") => result.public_key = "none"
        /\ (result.raised = "") => (result.public_key = "rsa_public" /\ key.data = "rsa_public")

\* the semantic model a setup with these names staged
StagedModel(info) ==
    <<"@", info.db_name, ".", info.schema_name, ".", "semantic_models", "/",
      "support_tickets_semantic_model.yaml">>

\* C20: once a setup has succeeded, every request of a question references
\* the semantic model staged in the database and schema of the last
\* successful setup
C20_ReferencesLastSetup ==
    \A i \in 1..Len(posts) :
        dbinfo # NoDbInfo => posts[i].body.semantic_model_file = StagedModel(dbinfo)

\* the events of a log that are steps of do
IsStep(e) == e.n > 0 /\ e.ev # "created"
StepEvents(L) == {p \in 1..Len(L) : IsStep(L[p])}

\* C21: in every run of do the steps are taken in the order database,
\* schema, file formats, stages, table, pipe-and-load; the message of a step
\* is posted right after that step returned and before the next step starts;
\* after a step that failed no step runs and do_setup is in its except
\* clause; "Setup completed." is posted only after all six steps returned
C21_StepsInOrder ==
    \A k \in SetupTasks :
        LET L == slog[k] IN
        \A p \in 1..Len(L) :
            /\ IsStep(L[p]) =>
                /\ L[p].n = Cardinality({q \in StepEvents(L) : q <= p})
                /\ L[p].ev = Steps[L[p].n]
                /\ L[p].n > 1 =>
                    (L[p - 1].ev = "created" /\ L[p - 1].n = L[p].n - 1 /\ L[p - 1].ok)
                /\ ~L[p].ok =>
                    /\ \A q \in (p + 1)..Len(L) :
                        L[q].ev = "error setting up database"
                    /\ spc[k] \in {"except", "done"}
            /\ L[p].ev = "created" =>
                (IsStep(L[p - 1]) /\ L[p - 1].n = L[p].n /\ L[p - 1].ok)
            /\ L[p].ev = "completed" =>
                /\ Cardinality(StepEvents(L)) = Len(Steps)
                /\ \A q \in StepEvents(L) : q < p /\ L[q].ok

C21_Witness ==
    /\ spc[1] = "done"
    /\ \E p \in 1..Len(slog[1]) : slog[1][p].ev = "create_stage" /\ ~slog[1][p].ok
    /\ slog[1][Len(slog[1])].ev = "error setting up database"
    /\ \E p \in 1..Len(slog[1]) : slog[1][p].ev = "created" /\ slog[1][p].n = 3

\* the positions of the events ev in a log
Events(L, ev) == {p \in 1..Len(L) : L[p].ev = ev}

\* the wait notice, a step of do or a message of do failed
SetupFailed(L) ==
    \E p \in 1..Len(L) : ~L[p].ok /\ L[p].ev \notin {"congratulations", "write", "error setting up database"}

\* do ran through: six steps and their messages, and "Setup completed."
SetupSucceeded(L) ==
    /\ ~SetupFailed(L)
    /\ Events(L, "completed") # {}

\* .dbinfo is written only by a do_setup whose setup succeeded and whose
\* congratulation message was posted, and with the names of that call
PersistedAfterSuccess ==
    dbinfo' # dbinfo =>
        \E k \in SetupTasks :
            /\ spc[k] = "write"
            /\ SetupSucceeded(slog[k])
            /\ \E p \in Events(slog[k], "congratulations") : slog[k][p].ok
            /\ dbinfo' \in DbInfos => dbinfo' = sargs[k]

\* C22 as stated: .dbinfo is written only after the setup succeeded and the
\* congratulation message was posted; a do_setup whose setup failed ends with
\* no congratulation message and exactly one error message posted to the
\* channel.
C22_ErrorMessagePosted ==
    [][/\ PersistedAfterSuccess
       /\ \A k \in SetupTasks :
           (spc'[k] = "done" /\ SetupFailed(slog'[k])) =>
               /\ Events(slog'[k], "congratulations") = {}
               /\ Cardinality(Events(slog'[k], "error setting up database")) = 1
               /\ \A p \in Events(slog'[k], "error setting up database") : slog'[k][p].ok
      ]_vars

\* C22 (amended): .dbinfo is written only after the setup succeeded and the
\* congratulation message was posted; a do_setup whose setup failed ends with
\* no congratulation message and exactly one error message sent as its last
\* call, posted or not.
C22_ErrorMessageSent ==
    [][/\ PersistedAfterSuccess
       /\ \A k \in SetupTasks :
           (spc'[k] = "done" /\ SetupFailed(slog'[k])) =>
               /\ Events(slog'[k], "congratulations") = {}
               /\ Events(slog'[k], "write") = {}
               /\ Events(slog'[k], "error setting up database") = {Len(slog'[k])}
      ]_vars

C22_Witness ==
    /\ spc[1] = "done"
    /\ SetupFailed(slog[1])
    /\ \E p \in Events(slog[1], "create_table") : ~slog[1][p].ok
    /\ dbinfo \in DbInfos
    /\ dbinfo # sargs[1]
    /\ slog[1][Len(slog[1])].ok

\* C23: with two setup requests in flight, every step of a DBSetup.do run
\* creates its object in the database and the schema that were passed to the
\* do_setup call that started the run.
C23_OwnNamesInEveryStep ==
    \A k \in SetupTasks : \A p \in StepEvents(slog[k]) :
        /\ slog[k][p].names.db_name = sargs[k].db_name
        /\ slog[k][p].n > 1 => slog[k][p].names.schema_name = sargs[k].schema_name

\* C24: whenever no setup request is being handled, the names held by the
\* shared db_setup are the names of the last successful setup, which are the
\* names recorded in .dbinfo, or the defaults when .dbinfo was never written;
\* in particular a failed setup leaves them as they were.
C24_NamesOfLastSuccessfulSetup ==
    ((\A k \in SetupTasks : spc[k] = "idle") /\ dbinfo # TruncatedDbInfo) =>
        db_setup = IF dbinfo = NoDbInfo THEN DefaultDbSetup ELSE dbinfo

\* C25 as stated: sanitize_host_name applied twice to the endpoint a client
\* was built with, which can be any URL, gives what it gives applied once; after any number of calls of answer on a client its analyst_endpoint
\* is the initial endpoint normalized once, and all its requests went to one
\* URL.
C25_EndpointStable ==
    /\ sanitize_host_name(sanitize_host_name(url)) = sanitize_host_name(url)
    /\ answerCalls > 0 => analyst_endpoint = sanitize_host_name(url)
    /\ \A i \in 1..Len(requestUrls) : requestUrls[i] = requestUrls[1]

\* C25 (amended): sanitize_host_name applied twice to the endpoint a client
\* was built with, which can be any URL, gives what it gives applied once; once a call of answer on a client has sent a request, its
\* analyst_endpoint is the initial endpoint normalized once, and until then it
\* is the initial endpoint; all its requests went to that one normalized URL.
C25_EndpointStableOnceSent ==
    /\ sanitize_host_name(sanitize_host_name(url)) = sanitize_host_name(url)
    /\ analyst_endpoint = IF requestUrls = <<>> THEN url ELSE requestUrls[1]
    /\ \A i \in 1..Len(requestUrls) :
        /\ requestUrls[i] = requestUrls[1]
        /\ requestUrls[i] = sanitize_host_name(url)

C25_Witness ==
    /\ Len(requestUrls) = 2
    /\ \E i \in MatchedHost(url) : url[i] = "_"
    /\ analyst_endpoint # url
====
